---- MODULE Spec2Model ----
(***************************************************************************)
(* Model of site_search/crawler-mamaearth.py: the URL path decomposer      *)
(* get_path_hierarchy, Crawler.download_sitemap, Crawler.crawl_page and    *)
(* the driver download_and_save with its multiprocessing pool.             *)
(*                                                                         *)
(* Text is modelled as a sequence of one-character strings, so that        *)
(* stripping, splitting, joining and substring tests are computed the way  *)
(* the Python code computes them.                                          *)
(***************************************************************************)
EXTENDS Integers, Sequences, FiniteSets, TLC

VARIABLES
    \* ---- get_path_hierarchy called on its own ----
    given,       \* the parts the argument was assembled from
    arg,         \* the argument string of get_path_hierarchy
    called,      \* TRUE once the function has returned
    ret,         \* the returned list
    \* ---- download_and_save ----
    pc,          \* position of the main process
    run,         \* number of the current run of download_and_save
    sitemap,     \* what SitemapFetcher(site_map_url).sitemap() yields
    site,        \* the response of the site to a GET of each URL
    pages,       \* result of crawler.download_sitemap
    page_urls,   \* the filtered list handed to pool.imap
    status,      \* per task of the pool: "queued", "running", "done"
    results,     \* per task: what crawl_page returned or raised
    next_yield,  \* index of the next result pool.imap yields
    out,         \* content of the output file
    completed,   \* history: task indices in the order the workers finished
    written      \* history: task indices in the order their lines were written

pathVars == <<given, arg, called, ret>>
crawlVars == <<pc, run, sitemap, site, pages, page_urls, status, results,
               next_yield, out, completed, written>>
vars == <<given, arg, called, ret, pc, run, sitemap, site, pages, page_urls,
          status, results, next_yield, out, completed, written>>

(***************************************************************************)
(* Bounds                                                                  *)
(***************************************************************************)
\* longest path drawn for get_path_hierarchy
MaxLen == 5
\* longest sitemap page list of the small crawls
MaxPages == 2
\* number of consecutive runs of download_and_save
MaxRuns == 2
\* length of the page list of the pool-saturation crawl
PoolPages == 11

(***************************************************************************)
(* Text helpers                                                            *)
(***************************************************************************)
Letters == {"a","b","c","d","e","f","g","h","i","j","k","l","m","n","o","p",
            "q","r","s","t","u","v","w","x","y","z"}
Digits == {"0","1","2","3","4","5","6","7","8","9"}
\* urllib.parse.scheme_chars
SchemeChars == Letters \cup Digits \cup {"+", "-", "."}

Range(s) == {s[i] : i \in 1..Len(s)}

\* s[i:] of Python with the 1-based index of the first kept character
From(s, i) == SubSeq(s, i, Len(s))

\* s[:n]
Take(s, n) == SubSeq(s, 1, IF n < Len(s) THEN n ELSE Len(s))

\* str.find, 1-based; 0 when the character does not occur
Find(s, c) ==
    IF \E i \in 1..Len(s) : s[i] = c
    THEN CHOOSE i \in 1..Len(s) : s[i] = c /\ \A j \in 1..(i-1) : s[j] # c
    ELSE 0

\* first position >= start holding one of the characters cs, Len(s)+1 if none
FindAny(s, cs, start) ==
    IF \E i \in start..Len(s) : s[i] \in cs
    THEN CHOOSE i \in start..Len(s) :
             s[i] \in cs /\ \A j \in start..(i-1) : s[j] \notin cs
    ELSE Len(s) + 1

\* the Python test  pat in s  on strings
Contains(pat, s) ==
    \E i \in 0..(Len(s) - Len(pat)) : SubSeq(s, i + 1, i + Len(pat)) = pat

RECURSIVE LStrip(_, _)
LStrip(s, c) == IF s # <<>> /\ Head(s) = c THEN LStrip(Tail(s), c) ELSE s

RECURSIVE RStrip(_, _)
RStrip(s, c) ==
    IF s # <<>> /\ s[Len(s)] = c THEN RStrip(SubSeq(s, 1, Len(s) - 1), c) ELSE s

\* str.strip(c)
Strip(s, c) == RStrip(LStrip(s, c), c)

\* str.split(c): always at least one element, empty pieces are kept
RECURSIVE Split(_, _)
Split(s, c) ==
    LET i == Find(s, c)
    IN  IF i = 0 THEN <<s>>
        ELSE <<SubSeq(s, 1, i - 1)>> \o Split(From(s, i + 1), c)

(***************************************************************************)
(* urllib.parse, as far as the inputs of the model exercise it (no input   *)
(* holds ';', whitespace or control characters)                            *)
(***************************************************************************)
urlparse(url) ==
    LET i == Find(url, ":")
        hasScheme == /\ i > 1
                     /\ url[1] \in Letters
                     /\ \A j \in 1..(i-1) : url[j] \in SchemeChars
        scheme == IF hasScheme THEN SubSeq(url, 1, i - 1) ELSE <<>>
        rest == IF hasScheme THEN From(url, i + 1) ELSE url
        hasNetloc == Take(rest, 2) = <<"/", "/">>
        delim == FindAny(rest, {"/", "?", "#"}, 3)
        netloc == IF hasNetloc THEN SubSeq(rest, 3, delim - 1) ELSE <<>>
        rest2 == IF hasNetloc THEN From(rest, delim) ELSE rest
        h == Find(rest2, "#")
        fragment == IF h = 0 THEN <<>> ELSE From(rest2, h + 1)
        rest3 == IF h = 0 THEN rest2 ELSE SubSeq(rest2, 1, h - 1)
        q == Find(rest3, "?")
        query == IF q = 0 THEN <<>> ELSE From(rest3, q + 1)
        path == IF q = 0 THEN rest3 ELSE SubSeq(rest3, 1, q - 1)
    IN  [scheme |-> scheme, netloc |-> netloc, path |-> path,
         query |-> query, fragment |-> fragment, hasNetloc |-> hasNetloc]

\* urljoin(base, url) for the base of download_and_save, whose path is "/":
\* an url with a scheme and a host is returned as it is, a reference
\* without scheme is resolved against the base
urljoin(base, url) ==
    LET b == urlparse(base)
        u == urlparse(url)
        origin == b.scheme \o <<":", "/", "/">> \o b.netloc
    IN  IF u.scheme # <<>> THEN url
        ELSE IF u.hasNetloc THEN b.scheme \o <<":">> \o url
        ELSE IF u.path # <<>> /\ Head(u.path) = "/" THEN origin \o url
        ELSE origin \o <<"/">> \o url

(***************************************************************************)
(* get_path_hierarchy                                                      *)
(***************************************************************************)
\* the for loop: prefix += directory; result.append(prefix); prefix += '/'
RECURSIVE HierarchyLoop(_, _, _)
HierarchyLoop(dirs, prefix, result) ==
    IF dirs = <<>> THEN result
    ELSE LET p == prefix \o Head(dirs)
         IN  HierarchyLoop(Tail(dirs), p \o <<"/">>, Append(result, p))

\* the decomposition without path.strip('/')
get_path_hierarchy_nostrip(url) ==
    LET path == urlparse(url).path
    IN  IF path = <<>> THEN <<>>
        ELSE HierarchyLoop(Split(path, "/"), <<>>, <<>>)

get_path_hierarchy(url) ==
    LET path == urlparse(url).path
    IN  IF path = <<>> THEN <<>>
        ELSE HierarchyLoop(Split(Strip(path, "/"), "/"), <<>>, <<>>)

(***************************************************************************)
(* Program constants of download_and_save and the pages of the modelled    *)
(* site                                                                    *)
(***************************************************************************)
\* "https://mamaearth.in/"
page_url == <<"h","t","t","p","s",":","/","/","m","a","m","a","e","a","r","t","h",".","i","n","/">>
\* "/product/"
PRODUCT == <<"/","p","r","o","d","u","c","t","/">>
\* "reviews"
REVIEWS == <<"r","e","v","i","e","w","s">>
\* multiprocessing.Pool(processes=10)
processes == 10

\* "https://x"
HostX == <<"h","t","t","p","s",":","/","/","x">>
\* the <loc> entries a sitemap of the modelled site may list:
\*   https://x/product/a           /product/b (relative)
\*   https://x/other               https://x/product/b/reviews
\*   https://x/other?/product/a
LocProductA == HostX \o PRODUCT \o <<"a">>
LocProductB == PRODUCT \o <<"b">>
LocOther == HostX \o <<"/","o","t","h","e","r">>
LocReviews == HostX \o PRODUCT \o <<"b", "/">> \o REVIEWS
LocQuery == LocOther \o <<"?">> \o PRODUCT \o <<"a">>
SitemapUrls == {LocProductA, LocProductB, LocOther, LocReviews, LocQuery}
\* the page list of the end-to-end scenario of the specification
ScenarioPages == <<LocProductA, LocOther, LocReviews>>

None == "None"

\* what the site answers to requests.get(url): the GET raises a connection
\* error, or returns a response with a status and (when ok) a document, of
\* which only the elements the selectors look for matter: the text of
\* h1.product-name, whether h2.product-description-header exists, the text
\* of the first <p> under its parent, and the text of div.product-subtitle
Doc(h1, h2, p, sub) == [h1 |-> h1, h2 |-> h2, p |-> p, sub |-> sub]
Response(raises, ok, doc) == [raises |-> raises, ok |-> ok, doc |-> doc]
FullDoc == Doc("Onion Oil", TRUE, "For hair fall", "150 ml")
Responses ==
    { Response(FALSE, TRUE, FullDoc),
      Response(FALSE, TRUE, Doc(None, TRUE, "For hair fall", "150 ml")),
      Response(FALSE, TRUE, Doc("Onion Oil", FALSE, None, "150 ml")),
      Response(FALSE, TRUE, Doc("Onion Oil", TRUE, None, "150 ml")),
      Response(FALSE, TRUE, Doc("Onion Oil", TRUE, "For hair fall", None)),
      Response(FALSE, FALSE, Doc(None, FALSE, None, None)),
      Response(TRUE, FALSE, Doc(None, FALSE, None, None)) }

\* all lists of at most n elements of S
ListsUpTo(S, n) == UNION {[1..k -> S] : k \in 0..n}

(***************************************************************************)
(* Crawler.download_sitemap with an explicit sitemap url                   *)
(***************************************************************************)
InvalidSitemap == [type |-> "InvalidSitemap", pages |-> <<>>]
PagesSitemap(l) == [type |-> "PagesXMLSitemap", pages |-> l]

\* IndexWebsiteSitemap.all_pages: the pages of the sub-sitemaps, in order
RECURSIVE all_pages(_)
all_pages(sub_sitemaps) ==
    IF sub_sitemaps = <<>> THEN <<>>
    ELSE Head(sub_sitemaps).pages \o all_pages(Tail(sub_sitemaps))

\* the isinstance test the wrong way round
download_sitemap_inverted(unpublished_sitemap) ==
    LET sitemaps == IF unpublished_sitemap.type = "InvalidSitemap"
                    THEN <<unpublished_sitemap>>
                    ELSE <<>>
    IN  all_pages(sitemaps)

download_sitemap(unpublished_sitemap) ==
    LET sitemaps == IF unpublished_sitemap.type # "InvalidSitemap"
                    THEN <<unpublished_sitemap>>
                    ELSE <<>>
    IN  all_pages(sitemaps)

(***************************************************************************)
(* Crawler.crawl_page                                                      *)
(***************************************************************************)
\* the outcome of one call: a ProductData, None, or an exception
ReturnedProduct(product) == [kind |-> "product", product |-> product]
ReturnedNone == [kind |-> "None"]
Raised == [kind |-> "raised"]
Pending == [kind |-> "pending"]

ProductData(title, description, subtitle, url, sections) ==
    [title |-> title, description |-> description, subtitle |-> subtitle,
     url |-> url, sections |-> sections]

\* a crawl_page that builds the record from whatever the selectors found
crawl_page_partial(url, resp) ==
    LET sections == get_path_hierarchy(url)
        doc == resp.doc
    IN  IF resp.raises THEN Raised
        ELSE IF ~resp.ok THEN ReturnedNone
        ELSE ReturnedProduct(ProductData(doc.h1, doc.p, doc.sub, url, sections))

crawl_page(url, resp) ==
    LET sections == get_path_hierarchy(url)
        doc == resp.doc
        \* soup.find(...) gives None when nothing matches; .parent, .find
        \* and .text on None raise inside the try block
        raisesInTry == \/ ~doc.h2
                       \/ doc.h1 = None
                       \/ doc.p = None
                       \/ doc.sub = None
    IN  IF resp.raises THEN Raised
        ELSE IF ~resp.ok THEN ReturnedNone
        ELSE IF raisesInTry THEN ReturnedNone
        ELSE ReturnedProduct(ProductData(doc.h1, doc.p, doc.sub, url, sections))

(***************************************************************************)
(* download_and_save: the list handed to the pool                          *)
(***************************************************************************)
FullPageUrls(ps) == [i \in 1..Len(ps) |-> urljoin(page_url, ps[i])]

\* a filter that forgets the "reviews" test
FilterPredicateProductOnly(x) == Contains(PRODUCT, x)

FilterPredicate(x) == Contains(PRODUCT, x) /\ ~Contains(REVIEWS, x)

FilteredPageUrls(ps) == SelectSeq(FullPageUrls(ps), FilterPredicate)

Running == {i \in 1..Len(status) : status[i] = "running"}
Queued == {i \in 1..Len(status) : status[i] = "queued"}

(***************************************************************************)
(* Initial states                                                          *)
(***************************************************************************)
NoInput == [host |-> <<>>, path |-> <<>>, query |-> <<>>, fragment |-> <<>>]

PathIdle ==
    /\ given = NoInput
    /\ arg = <<>>
    /\ called = FALSE
    /\ ret = <<>>

CrawlStart(sm) ==
    /\ sitemap = sm
    /\ site \in [Range(FilteredPageUrls(download_sitemap(sm))) -> Responses]
    /\ pc = "start"
    /\ run = 1
    /\ pages = <<>>
    /\ page_urls = <<>>
    /\ status = <<>>
    /\ results = <<>>
    /\ next_yield = 1
    /\ out = <<>>
    /\ completed = <<>>
    /\ written = <<>>

Init ==
    /\ PathIdle
    /\ \E sm \in {InvalidSitemap, PagesSitemap(ScenarioPages)}
                 \cup {PagesSitemap(l) : l \in ListsUpTo(SitemapUrls, MaxPages)} :
           CrawlStart(sm)

\* a sitemap listing more product pages than the pool has processes
InitPool ==
    /\ PathIdle
    /\ CrawlStart(PagesSitemap([i \in 1..PoolPages |-> LocProductA]))

(***************************************************************************)
(* download_and_save                                                       *)
(***************************************************************************)
\* pages = crawler.download_sitemap(site_map_url)
DownloadSitemap ==
    /\ pc = "start"
    /\ pages' = download_sitemap(sitemap)
    /\ pc' = "open"
    /\ UNCHANGED <<run, sitemap, site, page_urls, status, results, next_yield,
                   out, completed, written>>
    /\ UNCHANGED pathVars

\* the file content after open(..., 'a')
OpenedFileAppend(old) == old

\* the file content after open(..., 'w')
OpenedFile(old) == <<>>

\* open(..., 'w'), the urljoin loop, the filter, and the creation of the
\* pool with the tasks of pool.imap
OpenAndDispatch ==
    /\ pc = "open"
    /\ out' = OpenedFile(out)
    /\ page_urls' = FilteredPageUrls(pages)
    /\ status' = [i \in 1..Len(page_urls') |-> "queued"]
    /\ results' = [i \in 1..Len(page_urls') |-> Pending]
    /\ next_yield' = 1
    /\ completed' = <<>>
    /\ written' = <<>>
    /\ pc' = "crawling"
    /\ UNCHANGED <<run, sitemap, site, pages>>
    /\ UNCHANGED pathVars

\* a pool that starts a process for every task
ProcessFreeUnbounded == TRUE

\* whether a process of the pool is free to take a task
ProcessFree == Cardinality(Running) < processes

\* a free process of the pool takes the next task of the task queue and
\* enters crawl_page: its GET is in flight
WorkerTake ==
    /\ pc = "crawling"
    /\ Queued # {}
    /\ ProcessFree
    /\ LET i == CHOOSE q \in Queued : \A r \in Queued : q <= r
       IN  status' = [status EXCEPT ![i] = "running"]
    /\ UNCHANGED <<pc, run, sitemap, site, pages, page_urls, results,
                   next_yield, out, completed, written>>
    /\ UNCHANGED pathVars

\* crawl_page returns or raises in the worker, in any order among the
\* running tasks
WorkerFinish(i) ==
    /\ pc = "crawling"
    /\ status[i] = "running"
    /\ status' = [status EXCEPT ![i] = "done"]
    /\ results' = [results EXCEPT ![i] = crawl_page(page_urls[i], site[page_urls[i]])]
    /\ UNCHANGED <<pc, run, sitemap, site, pages, page_urls, next_yield, out,
                   written>>
    /\ UNCHANGED pathVars

WorkerReturn(i) ==
    /\ WorkerFinish(i)
    /\ completed' = Append(completed, i)

\* pool.imap_unordered: results are handed out in the order they arrive
NextToYieldUnordered ==
    IF next_yield <= Len(completed) THEN completed[next_yield] ELSE 0

\* the index whose result the iterator of pool.imap hands out next
NextToYield == next_yield

\* one iteration of the for loop: pool.imap yields the next result and the
\* body writes the product unless it is None
LoopBody ==
    /\ pc = "crawling"
    /\ LET i == NextToYield
       IN  /\ i \in 1..Len(page_urls)
           /\ status[i] = "done"
           /\ results[i].kind \in {"product", "None"}
           /\ out' = IF results[i].kind = "product"
                     THEN Append(out, results[i].product)
                     ELSE out
           /\ written' = IF results[i].kind = "product"
                         THEN Append(written, i)
                         ELSE written
           /\ next_yield' = next_yield + 1
    /\ UNCHANGED <<pc, run, sitemap, site, pages, page_urls, status, results,
                   completed>>
    /\ UNCHANGED pathVars

\* the iterator re-raises the exception of crawl_page in the main process:
\* it leaves both with blocks (the pool is terminated, the file closed)
\* and download_and_save ends with the exception
LoopRaise ==
    /\ pc = "crawling"
    /\ LET i == NextToYield
       IN  /\ i \in 1..Len(page_urls)
           /\ status[i] = "done"
           /\ results[i].kind = "raised"
    /\ status' = [i \in 1..Len(status) |->
                     IF status[i] = "done" THEN "done" ELSE "terminated"]
    /\ pc' = "aborted"
    /\ UNCHANGED <<run, sitemap, site, pages, page_urls, results, next_yield,
                   out, completed, written>>
    /\ UNCHANGED pathVars

\* the iterator is exhausted: both with blocks are left normally
Finish ==
    /\ pc = "crawling"
    /\ next_yield = Len(page_urls) + 1
    /\ pc' = "done"
    /\ UNCHANGED <<run, sitemap, site, pages, page_urls, status, results,
                   next_yield, out, completed, written>>
    /\ UNCHANGED pathVars

\* download_and_save is run again against the unchanged site and the same
\* output file
RunAgain ==
    /\ pc \in {"done", "aborted"}
    /\ run < MaxRuns
    /\ run' = run + 1
    /\ pc' = "start"
    /\ pages' = <<>>
    /\ page_urls' = <<>>
    /\ status' = <<>>
    /\ results' = <<>>
    /\ next_yield' = 1
    /\ completed' = <<>>
    /\ written' = <<>>
    /\ UNCHANGED <<sitemap, site, out>>
    /\ UNCHANGED pathVars

Next ==
    \/ DownloadSitemap
    \/ OpenAndDispatch
    \/ WorkerTake
    \/ \E i \in 1..Len(status) : WorkerReturn(i)
    \/ LoopBody
    \/ LoopRaise
    \/ Finish
    \/ RunAgain

Spec == Init /\ [][Next]_vars

\* the same program without the completion history
WorkerReturnPool(i) ==
    /\ WorkerFinish(i)
    /\ UNCHANGED completed

NextPool ==
    \/ DownloadSitemap
    \/ OpenAndDispatch
    \/ WorkerTake
    \/ \E i \in 1..Len(status) : WorkerReturnPool(i)
    \/ LoopBody
    \/ LoopRaise
    \/ Finish
    \/ RunAgain

SpecPool == InitPool /\ [][NextPool]_vars

(***************************************************************************)
(* get_path_hierarchy called on its own                                    *)
(***************************************************************************)
PathChars == {"a", "b", "/"}
\* "x://h", "?a/b", "#/a"
SchemeAndHost == <<"x", ":", "/", "/", "h">>
QueryText == <<"?", "a", "/", "b">>
FragmentText == <<"#", "/", "a">>
\* the arguments of the doctests: "/foo/bar", "foo", "/foo/", "foo/bar/"
DocTestArgs == { <<"/","f","o","o","/","b","a","r">>,
                 <<"f","o","o">>,
                 <<"/","f","o","o","/">>,
                 <<"f","o","o","/","b","a","r","/">> }

Paths == ListsUpTo(PathChars, MaxLen) \cup DocTestArgs

\* an url text whose path component is g.path: with a host the path is
\* empty or starts with "/", without a host it does not start with "//"
WellFormed(g) ==
    /\ g.host # <<>> => (g.path = <<>> \/ Head(g.path) = "/")
    /\ g.host = <<>> => Take(g.path, 2) # <<"/", "/">>

UrlText(g) == g.host \o g.path \o g.query \o g.fragment

IdleCrawl ==
    /\ pc = "idle"
    /\ run = 0
    /\ sitemap = InvalidSitemap
    /\ site = <<>>
    /\ pages = <<>>
    /\ page_urls = <<>>
    /\ status = <<>>
    /\ results = <<>>
    /\ next_yield = 1
    /\ out = <<>>
    /\ completed = <<>>
    /\ written = <<>>

InitPath ==
    /\ given \in {g \in [host : {<<>>, SchemeAndHost}, path : Paths,
                         query : {<<>>, QueryText},
                         fragment : {<<>>, FragmentText}] : WellFormed(g)}
    /\ arg = UrlText(given)
    /\ called = FALSE
    /\ ret = <<>>
    /\ IdleCrawl

Call ==
    /\ ~called
    /\ pc = "idle"
    /\ ret' = get_path_hierarchy(arg)
    /\ called' = TRUE
    /\ UNCHANGED <<given, arg>>
    /\ UNCHANGED crawlVars

NextPath == Call

SpecPath == InitPath /\ [][NextPath]_vars

(***************************************************************************)
(* Properties                                                              *)
(***************************************************************************)
Last(s) == s[Len(s)]

IsPrefix(s, t) == Len(s) <= Len(t) /\ SubSeq(t, 1, Len(s)) = s

\* position of task i in the completion history
FinishedAt(i) == CHOOSE k \in 1..Len(completed) : completed[k] = i

InRun == pc \in {"crawling", "done", "aborted"}

\* the response of the site has everything a record needs
CompletePage(resp) ==
    /\ ~resp.raises
    /\ resp.ok
    /\ resp.doc.h1 # None
    /\ resp.doc.h2
    /\ resp.doc.p # None
    /\ resp.doc.sub # None

\* C1: a line is in the output file only for an url whose GET returned an
\* ok response in which all three selectors matched, and every written
\* record carries the three texts of that page: no line has a None title,
\* description or subtitle.
C1_OnlyCompleteRecords ==
    \A k \in 1..Len(out) :
        /\ out[k].url \in DOMAIN site
        /\ CompletePage(site[out[k].url])
        /\ out[k].title # None /\ out[k].title = site[out[k].url].doc.h1
        /\ out[k].description # None /\ out[k].description = site[out[k].url].doc.p
        /\ out[k].subtitle # None /\ out[k].subtitle = site[out[k].url].doc.sub

\* a finished run that wrote a record and skipped a page that answered ok
\* but lacked a selected element
C1_Witness ==
    /\ pc = "done"
    /\ Len(out) >= 1
    /\ \E i \in 1..Len(page_urls) :
           /\ site[page_urls[i]].ok
           /\ ~CompletePage(site[page_urls[i]])
           /\ i \notin Range(written)

\* C2: no failure of a single url aborts the run: the run never ends with
\* an exception, and it ends only after every dispatched url has an outcome.
C2_NoUrlFailureAborts ==
    /\ pc # "aborted"
    /\ pc \in {"done", "aborted"} => \A i \in 1..Len(status) : status[i] = "done"

\* ---- get_path_hierarchy ----
NonSlash(path) == {i \in 1..Len(path) : path[i] # "/"}

\* the path without its leading and trailing slashes
Core(path) ==
    LET lo == CHOOSE i \in NonSlash(path) : \A j \in NonSlash(path) : i <= j
        hi == CHOOSE i \in NonSlash(path) : \A j \in NonSlash(path) : j <= i
    IN  SubSeq(path, lo, hi)

Slashes(core) == {i \in 1..Len(core) : core[i] = "/"}

\* s1, s1/s2, ..., s1/.../sn : the texts before each slash of the core, and
\* the core itself
CumulativePrefixes(path) ==
    LET core == Core(path)
        n == Cardinality(Slashes(core)) + 1
        kth(k) == CHOOSE i \in Slashes(core) :
                      Cardinality({j \in Slashes(core) : j < i}) = k - 1
    IN  [k \in 1..n |-> IF k = n THEN core ELSE SubSeq(core, 1, kth(k) - 1)]

DocTests ==
    /\ given.path = <<"/","f","o","o","/","b","a","r">> => ret = << <<"f","o","o">>, <<"f","o","o","/","b","a","r">> >>
    /\ given.path = <<"f","o","o">> => ret = << <<"f","o","o">> >>
    /\ given.path = <<"/","f","o","o","/">> => ret = << <<"f","o","o">> >>
    /\ given.path = <<"f","o","o","/","b","a","r","/">> => ret = << <<"f","o","o">>, <<"f","o","o","/","b","a","r">> >>

C4_EmptyForEmptyAndRoot ==
    called =>
        /\ given.path \in {<<>>, <<"/">>} => ret = <<>>
        /\ \A k \in 1..Len(ret) : ret[k] # <<>>

\* C5: each url of the filtered list goes to exactly one crawl_page call
\* and the lines written never outnumber the distinct filtered urls.
C5_OncePerUrl ==
    InRun =>
        /\ Len(out) <= Cardinality(Range(page_urls))
        /\ pc = "done" =>
               \A u \in Range(page_urls) :
                   Cardinality({i \in 1..Len(page_urls) :
                                   page_urls[i] = u /\ status[i] = "done"}) = 1

\* C6 as stated: lines are written in the order in which the workers
\* finished.
C6_CompletionOrder ==
    \A p, q \in 1..Len(written) :
        p < q => FinishedAt(written[p]) < FinishedAt(written[q])

\* C6 as amended: lines are written in the order of the urls in the
\* filtered list, whatever the order in which the workers finished; the
\* file of a run holds the records of the written tasks in that order.
C6_InputOrder ==
    InRun =>
        /\ \A p, q \in 1..Len(written) : p < q => written[p] < written[q]
        /\ \A p \in 1..Len(written) : written[p] \in Range(completed)
        /\ Len(out) = Len(written)
        /\ \A p \in 1..Len(written) :
               out[p] = results[written[p]].product

\* two lines written although the later task finished first
C6_Witness ==
    /\ pc = "done"
    /\ Len(written) >= 2
    /\ \E p, q \in 1..Len(written) :
           p < q /\ FinishedAt(written[q]) < FinishedAt(written[p])

RECURSIVE RecordsUpTo(_)
RecordsUpTo(n) ==
    IF n = 0 THEN <<>>
    ELSE IF results[n].kind = "product"
         THEN Append(RecordsUpTo(n - 1), results[n].product)
         ELSE RecordsUpTo(n - 1)

PathPredicate(x) ==
    /\ Contains(PRODUCT, urlparse(x).path)
    /\ ~Contains(REVIEWS, urlparse(x).path)

\* the predicate on the whole text of the url
UrlPredicate(x) ==
    /\ \E i \in 1..Len(x) : IsPrefix(PRODUCT, From(x, i))
    /\ ~\E i \in 1..Len(x) : IsPrefix(REVIEWS, From(x, i))

\* C8 as stated: every written record has an url of the filtered list whose
\* path holds "/product/" and not "reviews"; an url failing that is never
\* in the list handed to the pool.
C8_PathPredicate ==
    InRun =>
        /\ \A k \in 1..Len(out) :
               out[k].url \in Range(page_urls) /\ PathPredicate(out[k].url)
        /\ \A i \in 1..Len(page_urls) : PathPredicate(page_urls[i])

\* C8 as amended: the predicate is taken on the whole url text ("/product/"
\* occurs in the url and "reviews" occurs nowhere in it, host and query
\* included): every written record has such an url of the filtered list,
\* the list holds exactly the joined urls of the sitemap that satisfy it,
\* and of the scenario's three pages only https://x/product/a is handed out.
C8_UrlPredicate ==
    InRun =>
        /\ \A k \in 1..Len(out) :
               out[k].url \in Range(page_urls) /\ UrlPredicate(out[k].url)
        /\ \A i \in 1..Len(page_urls) : UrlPredicate(page_urls[i])
        /\ \A i \in 1..Len(pages) :
               LET full == IF Take(pages[i], 1) = <<"/">>
                           THEN SubSeq(page_url, 1, Len(page_url) - 1) \o pages[i]
                           ELSE pages[i]
               IN  UrlPredicate(full) => full \in Range(page_urls)
        /\ pages = ScenarioPages => page_urls = <<LocProductA>>

\* a record written for an url with "/product/" in its query only
C8_Witness ==
    /\ pc = "done"
    /\ \E k \in 1..Len(out) :
           out[k].url = LocQuery /\ ~PathPredicate(out[k].url)

\* C9: at most 10 fetches are in flight at any time, however long the
\* filtered list is.
C9_PoolBound == Cardinality(Running) <= 10

\* all processes busy while tasks are still waiting
C9_Witness ==
    /\ Cardinality(Running) = 10
    /\ Queued # {}
    /\ Len(page_urls) > 10

\* C10: with an invalid explicit sitemap download_sitemap returns no pages
\* and the run goes on with nothing to dispatch, writes nothing and does not
\* end with an exception; with a valid one exactly its pages are returned.
C10_InvalidSitemapDegrades ==
    pc \in {"open", "crawling", "done", "aborted"} =>
        /\ sitemap.type = "InvalidSitemap" =>
               /\ pages = <<>>
               /\ pc # "aborted"
               /\ InRun => page_urls = <<>> /\ out = <<>>
        /\ sitemap.type # "InvalidSitemap" => pages = sitemap.pages

\* a run on an invalid sitemap that completed
C10_Witness ==
    /\ sitemap.type = "InvalidSitemap"
    /\ pc = "done"
    /\ page_urls = <<>>

====
